---- MODULE Spec2Model ----
(***************************************************************************)
(* Model of the VictorOps translation handler of am-rest-translator:       *)
(* func victorops(rw http.ResponseWriter, req *http.Request).              *)
(*                                                                         *)
(* Texts are sequences of tokens (TLA+ strings cannot be concatenated):    *)
(* a formatted message is the format string followed by its arguments, a   *)
(* decimal number is the sequence of its digit characters.                 *)
(***************************************************************************)
EXTENDS Integers, Sequences, FiniteSets, TLC

\* Longest alert list of an inbound message.
MaxAlerts == 2

\* Number of request slots of the server; Init puts one request in flight.
NumReqs == 2

Reqs == 1..NumReqs

-----------------------------------------------------------------------------
(* Small helpers of the Go runtime the handler relies on.                  *)

\* m[k] of a Go map: the zero value "" when the key is missing.
MapGet(m, k) == IF k \in DOMAIN m THEN m[k] ELSE ""

EmptyMap == [k \in {} |-> ""]

\* The orders in which "for k, v := range m" may visit the keys of a map:
\* Go leaves the order unspecified, so every permutation is possible.
RangeOrders(m) ==
  { o \in [1..Cardinality(DOMAIN m) -> DOMAIN m] :
      \A i, j \in 1..Cardinality(DOMAIN m) : i # j => o[i] # o[j] }

\* Lexicographic order of the label names of the model.
KeyOrder ==
  << "alertname", "description", "job", "severity", "summary",
     "victorops_message_type" >>

InKeys(m, k) == k \in DOMAIN m

\* template.KV.Values(): the values of the pairs sorted by label name.
Values(kv) ==
  LET ks == SelectSeq(KeyOrder, LAMBDA k : InKeys(kv, k))
  IN  [i \in 1..Len(ks) |-> kv[ks[i]]]

\* strings.Join(a, sep)
RECURSIVE Join(_, _)
Join(a, sep) ==
  IF Len(a) = 0 THEN << >>
  ELSE IF Len(a) = 1 THEN << a[1] >>
  ELSE << a[1], sep >> \o Join(Tail(a), sep)

Digits == << "0", "1", "2", "3", "4", "5", "6", "7", "8", "9" >>

\* A FormatUint that emits the digits least significant first.
RECURSIVE FormatUintReversed(_, _)
FormatUintReversed(n, base) ==
  IF n < base THEN << Digits[n + 1] >>
  ELSE << Digits[(n % base) + 1] >> \o FormatUintReversed(n \div base, base)

\* strconv.FormatUint(n, base) for base <= 10.
RECURSIVE FormatUint(_, _)
FormatUint(n, base) ==
  IF n < base THEN << Digits[n + 1] >>
  ELSE FormatUint(n \div base, base) \o << Digits[(n % base) + 1] >>

\* The verb %v of fmt applied to an integer: its decimal numeral.
FormatV(n) == ToString(n)

\* fmt.Fprintf renders a format and its arguments.
Sprintf(format, args) == << format >> \o args

-----------------------------------------------------------------------------
(* http.ResponseWriter                                                     *)

StatusOK == 200
StatusBadRequest == 400
StatusInternalServerError == 500
StatusBadGateway == 502

\* wroteHeader, status and body are what the caller is sent; asked and late
\* record the handler's own WriteHeader calls: the codes it passed, and
\* whether one of the calls came after body text had been written.
NewResponseWriter ==
  [ wroteHeader |-> FALSE, status |-> 0, body |-> << >>,
    asked |-> << >>, late |-> FALSE ]

\* The status line is committed once: later codes are dropped.
CommitHeader(w, code) ==
  IF w.wroteHeader THEN w
  ELSE [w EXCEPT !.wroteHeader = TRUE, !.status = code]

\* rw.WriteHeader(code): only the first call sets the status.
WriteHeader(w, code) ==
  [ CommitHeader(w, code) EXCEPT !.asked = Append(@, code),
                                 !.late = @ \/ (w.body # << >>) ]

\* fmt.Fprintf(rw, ...): a write before WriteHeader commits status 200.
Fprintf(w, format, args) ==
  LET w1 == CommitHeader(w, StatusOK)
  IN  [w1 EXCEPT !.body = Append(@, Sprintf(format, args))]

\* The handler returns: the server sends the response, 200 if no status
\* was set.
Return(w) == CommitHeader(w, StatusOK)

-----------------------------------------------------------------------------
(* Inbound requests: the JSON body and the query parameters.               *)

VictoropsApikeyParam == "api_key"
VictoropsRoutingkeyParam == "routing_key"

\* A JSON member of the body: absent, or present with a value.
Absent == [present |-> FALSE, null |-> FALSE, v |-> << >>]
Null == [present |-> TRUE, null |-> TRUE, v |-> << >>]
Member(x) == [present |-> TRUE, null |-> FALSE, v |-> x]

\* Seconds since the epoch that time.Now().Unix() may return.
Times == { 1500000100, 1500000101 }

\* The alerts an inbound message may carry (template.Alert).
AlertSet ==
  { [ Labels |-> EmptyMap, Annotations |-> EmptyMap,
      StartsAt |-> [unix |-> 1500000000], GeneratorURL |-> "http://prom/a" ],
    [ Labels |-> [k \in {"victorops_message_type"} |-> "WARNING"],
      Annotations |-> [k \in {"summary"} |-> "down"],
      StartsAt |-> [unix |-> 1500000060], GeneratorURL |-> "http://prom/b" ],
    [ Labels |-> [k \in {"victorops_message_type"} |-> ""],
      Annotations |-> EmptyMap,
      StartsAt |-> [unix |-> 1500000000], GeneratorURL |-> "http://prom/c" ],
    [ Labels |-> [k \in {"severity", "victorops_message_type"} |->
                    IF k = "severity" THEN "high" ELSE "page"],
      Annotations |-> [k \in {"summary"} |-> "slow"],
      StartsAt |-> [unix |-> 1500000060], GeneratorURL |-> "http://prom/d" ] }

AlertLists == UNION { [1..n -> AlertSet] : n \in 0..MaxAlerts }

Statuses == { "firing", "resolved", "pending" }

GroupKeys == { 0, 10, 305 }

GroupLabelSets ==
  { [k \in {"alertname", "job"} |-> IF k = "alertname" THEN "Up" ELSE "api"] }

ExternalURLs == { "http://am" }

\* Bodies that are JSON objects.  The members the handler never reads
\* (receiver, commonLabels, commonAnnotations, version) are left out.
JSONBodies ==
  { [ syntax |-> TRUE, status |-> s, alerts |-> a, groupKey |-> g,
      groupLabels |-> l, externalURL |-> u ] :
      s \in {Absent} \cup { Member(x) : x \in Statuses },
      a \in {Absent, Null} \cup { Member(x) : x \in AlertLists },
      g \in { Member(x) : x \in GroupKeys },
      l \in { Member(x) : x \in GroupLabelSets },
      u \in { Member(x) : x \in ExternalURLs } }

\* A JSON object with none of the members of template.Data: {"groupKey": n}.
BareBodies ==
  { [ syntax |-> TRUE, status |-> Absent, alerts |-> Absent,
      groupKey |-> Member(g), groupLabels |-> Absent,
      externalURL |-> Absent ] : g \in GroupKeys }

\* A body that is not JSON, or whose members have the wrong JSON type.
GarbageBody ==
  [ syntax |-> FALSE, status |-> Absent, alerts |-> Absent,
    groupKey |-> Absent, groupLabels |-> Absent, externalURL |-> Absent ]

Bodies == JSONBodies \cup BareBodies \cup {GarbageBody}

\* url.Values of the query: parameter name -> list of values.
Queries ==
  { [ api_key |-> a, routing_key |-> r ] :
      a \in { Absent, Member(<< "" >>), Member(<< "A1" >>) },
      r \in { Absent, Member(<< "" >>), Member(<< "R1" >>) } }

Requests == [ body : Bodies, query : Queries ]

\* The value of a slot on which no request has arrived.
NoRequest == [ body |-> GarbageBody,
               query |-> [api_key |-> Null, routing_key |-> Null] ]

\* The alert of AlertSet with the generator URL u.
AlertOf(u) == CHOOSE a \in AlertSet : a.GeneratorURL = u

ABody(status, groupKey, alerts) ==
  [ syntax |-> TRUE, status |-> Member(status), alerts |-> Member(alerts),
    groupKey |-> Member(groupKey),
    groupLabels |-> Member(CHOOSE l \in GroupLabelSets : TRUE),
    externalURL |-> Member(CHOOSE u \in ExternalURLs : TRUE) ]

AQuery(apiKey, routingKey) ==
  [ api_key |-> Member(<< apiKey >>), routing_key |-> Member(<< routingKey >>) ]

\* The requests that are served concurrently: two clients with their own
\* credentials, firing, resolved and unknown status, and a request without
\* routing_key.
ConcRequests ==
  { [ body |-> ABody("firing", 10,
                     << AlertOf("http://prom/b"), AlertOf("http://prom/a") >>),
      query |-> AQuery("A1", "R1") ],
    [ body |-> ABody("firing", 305, << AlertOf("http://prom/d") >>),
      query |-> AQuery("A2", "R2") ],
    [ body |-> ABody("resolved", 305, << AlertOf("http://prom/a") >>),
      query |-> AQuery("A2", "R2") ],
    [ body |-> ABody("pending", 10, << >>),
      query |-> AQuery("A1", "R1") ],
    [ body |-> ABody("firing", 10, << AlertOf("http://prom/b") >>),
      query |-> [ api_key |-> Member(<< "A1" >>), routing_key |-> Absent ] ] }

-----------------------------------------------------------------------------
(* Decoding of the inbound body: json.NewDecoder(req.Body).Decode(&wm)     *)

\* A test for the alert collection instead of the embedded Data pointer.
DataNilIfNoAlerts(body) == ~body.alerts.present \/ body.alerts.null

\* wm.Data == nil after the decode.  WebhookMessage embeds *template.Data:
\* encoding/json allocates the embedded struct as soon as the object has one
\* of its members, whatever the member's value (null included).
DataNil(body) ==
  /\ ~body.status.present
  /\ ~body.alerts.present
  /\ ~body.groupLabels.present
  /\ ~body.externalURL.present

\* The decoded notify.WebhookMessage: absent and null members leave the
\* zero value of the field.
DecodeWebhook(body) ==
  [ err |-> ~body.syntax,
    dataNil |-> DataNil(body),
    Status |-> IF body.status.present /\ ~body.status.null
               THEN body.status.v ELSE "",
    Alerts |-> IF body.alerts.present /\ ~body.alerts.null
               THEN body.alerts.v ELSE << >>,
    GroupKey |-> IF body.groupKey.present /\ ~body.groupKey.null
                 THEN body.groupKey.v ELSE 0,
    GroupLabels |-> IF body.groupLabels.present /\ ~body.groupLabels.null
                    THEN body.groupLabels.v ELSE EmptyMap,
    ExternalURL |-> IF body.externalURL.present /\ ~body.externalURL.null
                    THEN body.externalURL.v ELSE "" ]

NoWebhook == DecodeWebhook(GarbageBody)

\* req.URL.Query()[param]: the first value when the parameter is there.
QueryParam(query, param) ==
  LET val == IF param = VictoropsApikeyParam THEN query.api_key
             ELSE query.routing_key
  IN  IF val.present /\ Len(val.v) > 0 THEN val.v[1] ELSE ""

\* A validation that rejects only when both parameters are missing.
MissingParamsBoth(apiKey, routingKey) == apiKey = "" /\ routingKey = ""

\* apiKey == "" || routingKey == ""
MissingParams(apiKey, routingKey) == apiKey = "" \/ routingKey = ""

-----------------------------------------------------------------------------
(* Outbound messages: victoropsPost and its JSON form.                     *)

\* The message type of an alert taken from the label whenever it is there,
\* empty or not.
MessageTypeIfPresent(alert) ==
  IF "victorops_message_type" \in DOMAIN alert.Labels
  THEN alert.Labels["victorops_message_type"] ELSE "CRITICAL"

\* messageType of the firing branch: the label victorops_message_type when
\* it is not "", CRITICAL otherwise.
MessageType(alert) ==
  IF MapGet(alert.Labels, "victorops_message_type") # ""
  THEN MapGet(alert.Labels, "victorops_message_type") ELSE "CRITICAL"

\* stateMessage of the firing branch, the maps visited in the orders ao, lo.
StateMessage(alert, externalURL, ao, lo) ==
  [i \in 1..Len(ao) |-> << ao[i], ": ", alert.Annotations[ao[i]], "\n" >>]
  \o [i \in 1..Len(lo) |-> << lo[i], ": ", alert.Labels[lo[i]], "\n" >>]
  \o << << "Prometheus: ", alert.GeneratorURL, "\n" >>,
        << "Alertmanager: ", externalURL >> >>

\* time.Time.Unix()
Unix(t) == t.unix

\* displayName := strings.Join(wm.GroupLabels.Values(), ":")
DisplayName(w) == Join(Values(w.GroupLabels), ":")

\* The victoropsPost built for one alert of a firing message.
FiringPost(w, alert, now, ao, lo) ==
  [ MessageType |-> MessageType(alert),
    EntityID |-> FormatUint(w.GroupKey, 10),
    Timestamp |-> now,
    StateStartTime |-> Unix(alert.StartsAt),
    StateMessage |-> StateMessage(alert, w.ExternalURL, ao, lo),
    MonitoringTool |-> << "Prometheus Alertmanager" >>,
    EntityDisplayName |-> DisplayName(w) ]

\* The victoropsPost built for a resolved message.
ResolvedPost(w, now) ==
  [ MessageType |-> "RECOVERY",
    EntityID |-> FormatUint(w.GroupKey, 10),
    Timestamp |-> now,
    StateStartTime |-> 0,
    StateMessage |-> << << "Entity recovered" >> >>,
    MonitoringTool |-> << "Prometheus Alertmanager" >>,
    EntityDisplayName |-> DisplayName(w) ]

\* The members of the JSON object json.Marshal writes for a victoropsPost.
JSONNames(vp, keepEmpty) ==
  {"message_type"}
  \cup (IF keepEmpty \/ vp.EntityID # << >> THEN {"entity_id"} ELSE {})
  \cup (IF keepEmpty \/ vp.Timestamp # 0 THEN {"timestamp"} ELSE {})
  \cup (IF keepEmpty \/ vp.StateStartTime # 0
        THEN {"state_start_time"} ELSE {})
  \cup (IF keepEmpty \/ vp.StateMessage # << >>
        THEN {"state_message"} ELSE {})
  \cup (IF keepEmpty \/ vp.MonitoringTool # << >>
        THEN {"monitoring_tool"} ELSE {})
  \cup (IF keepEmpty \/ vp.EntityDisplayName # << >>
        THEN {"entity_display_name"} ELSE {})

JSONValue(vp, name) ==
  CASE name = "message_type" -> << vp.MessageType >>
    [] name = "entity_id" -> vp.EntityID
    [] name = "timestamp" -> << vp.Timestamp >>
    [] name = "state_start_time" -> << vp.StateStartTime >>
    [] name = "state_message" -> vp.StateMessage
    [] name = "monitoring_tool" -> vp.MonitoringTool
    [] name = "entity_display_name" -> vp.EntityDisplayName

\* A Marshal that ignores the omitempty options of the struct tags.
MarshalKeepEmpty(vp) ==
  [name \in JSONNames(vp, TRUE) |-> JSONValue(vp, name)]

\* json.Marshal(vp): message_type always, the other members (omitempty)
\* only when not the zero value; ack_msg and ack_author are never set.
Marshal(vp) ==
  [name \in JSONNames(vp, FALSE) |-> JSONValue(vp, name)]

\* err of json.Marshal(vp): a struct of strings and int64 always encodes.
MarshalError(vp) == FALSE

\* The URL of the outbound POST.
PostURL(apiKey, routingKey) ==
  << "https://alert.victorops.com/integrations/generic/20131114/alert/",
     apiKey, "/", routingKey >>

-----------------------------------------------------------------------------
(* What the downstream service may answer to one POST.                     *)

\* The response bodies: JSON of a victoropsResponse, or something else.
SuccessBody ==
  [ json |-> TRUE, Result |-> "success", EntityID |-> "e", Message |-> "" ]
FailureBody ==
  [ json |-> TRUE, Result |-> "failure", EntityID |-> "",
    Message |-> "bad routing key" ]
HTMLBody ==
  [ json |-> FALSE, Result |-> "", EntityID |-> "", Message |-> "" ]

TransportError ==
  [ err |-> TRUE, StatusCode |-> 0, Body |-> HTMLBody ]

Outcomes ==
  { TransportError,
    [ err |-> FALSE, StatusCode |-> 200, Body |-> SuccessBody ],
    [ err |-> FALSE, StatusCode |-> 202, Body |-> SuccessBody ],
    [ err |-> FALSE, StatusCode |-> 200, Body |-> HTMLBody ],
    [ err |-> FALSE, StatusCode |-> 404, Body |-> FailureBody ],
    [ err |-> FALSE, StatusCode |-> 500, Body |-> FailureBody ],
    [ err |-> FALSE, StatusCode |-> 500, Body |-> HTMLBody ] }

\* json.NewDecoder(resp.Body).Decode(&vr): vr stays zero on an error.
DecodeResponse(body) ==
  [ err |-> ~body.json,
    vr |-> IF body.json
           THEN [ Result |-> body.Result, EntityID |-> body.EntityID,
                  Message |-> body.Message ]
           ELSE [ Result |-> "", EntityID |-> "", Message |-> "" ] ]

\* resp.StatusCode/100 != 2
Not2xx(code) == code \div 100 # 2

-----------------------------------------------------------------------------
(* What the handler does with the outcome of a POST: the response writer   *)
(* after it, and whether the handler returns.                              *)

PostFailed(w, out) ==
  [ rw |-> Fprintf(WriteHeader(w, StatusBadGateway),
                   "Failed post to VictorOps REST api: %s", << "err" >>),
    return |-> TRUE ]

\* A firing branch that goes on to the next alert after a rejected POST.
FiringOutcomeNoReturn(w, out) ==
  IF out.err THEN PostFailed(w, out)
  ELSE
    LET d == DecodeResponse(out.Body)
        w1 == IF d.err
              THEN Fprintf(w, "Could not decode VictorOps response body: %s",
                           << "err" >>)
              ELSE w
    IN  IF Not2xx(out.StatusCode)
        THEN [ rw |-> Fprintf(WriteHeader(w1, StatusBadGateway),
                         "Unexpected status code %v from VictorOps: %v",
                         << FormatV(out.StatusCode), d.vr.Message >>),
               return |-> FALSE ]
        ELSE [ rw |-> w1, return |-> FALSE ]

\* A firing branch that handles a decode error of the response as the
\* resolved branch does: 502 and return.
FiringOutcomeAbortOnDecode(w, out) ==
  IF out.err THEN PostFailed(w, out)
  ELSE
    LET d == DecodeResponse(out.Body)
    IN  IF d.err
        THEN [ rw |-> Fprintf(WriteHeader(w, StatusBadGateway),
                         "Could not decode VictorOps response body: %s",
                         << "err" >>),
               return |-> TRUE ]
        ELSE IF Not2xx(out.StatusCode)
        THEN [ rw |-> Fprintf(WriteHeader(w, StatusBadGateway),
                         "Unexpected status code %v from VictorOps: %v",
                         << FormatV(out.StatusCode), d.vr.Message >>),
               return |-> TRUE ]
        ELSE [ rw |-> w, return |-> FALSE ]

\* Firing branch: a decode error of the response is written to the body
\* without a status and without a return; a non-2xx status returns.
FiringOutcome(w, out) ==
  IF out.err THEN PostFailed(w, out)
  ELSE
    LET d == DecodeResponse(out.Body)
        w1 == IF d.err
              THEN Fprintf(w, "Could not decode VictorOps response body: %s",
                           << "err" >>)
              ELSE w
    IN  IF Not2xx(out.StatusCode)
        THEN [ rw |-> Fprintf(WriteHeader(w1, StatusBadGateway),
                         "Unexpected status code %v from VictorOps: %v",
                         << FormatV(out.StatusCode), d.vr.Message >>),
               return |-> TRUE ]
        ELSE [ rw |-> w1, return |-> FALSE ]

\* Resolved branch: a decode error of the response returns with 502; the
\* format of the status message has one verb and is given vr.Message.
ResolvedOutcome(w, out) ==
  IF out.err THEN PostFailed(w, out)
  ELSE
    LET d == DecodeResponse(out.Body)
    IN  IF d.err
        THEN [ rw |-> Fprintf(WriteHeader(w, StatusBadGateway),
                         "Could not decode VictorOps response body: %s",
                         << "err" >>),
               return |-> TRUE ]
        ELSE IF Not2xx(out.StatusCode)
        THEN [ rw |-> Fprintf(WriteHeader(w, StatusBadGateway),
                         "Unexpected status code %v from VictorOps: ",
                         << d.vr.Message >>),
               return |-> TRUE ]
        ELSE [ rw |-> w, return |-> TRUE ]

MarshalFailed(w) ==
  Fprintf(WriteHeader(w, StatusInternalServerError),
          "Failed to marshall victoropsPost: %s", << "err" >>)

\* A branch selection that takes every status but "firing" for resolved.
BranchElseResolved(status) ==
  IF status = "firing" THEN "firing" ELSE "resolved"

\* if status == "firing" ... else if status == "resolved" ... else
Branch(status) ==
  IF status = "firing" THEN "firing"
  ELSE IF status = "resolved" THEN "resolved"
  ELSE "unknown"

-----------------------------------------------------------------------------
VARIABLES
  req,    \* req[r]: the inbound request of slot r (body and query)
  pc,     \* pc[r]: where the handler of request r stands
  wm,     \* wm[r]: the decoded WebhookMessage
  keys,   \* keys[r]: apiKey and routingKey
  idx,    \* idx[r]: the alert the firing loop is at
  posts,  \* posts[r]: the outbound POSTs issued for r, in order
  resps,  \* resps[r]: the outcomes of these POSTs, in order
  rw,     \* rw[r]: the response writer of r
  Handles \* the route table: path -> handler

vars == << req, pc, wm, keys, idx, posts, resps, rw, Handles >>

\* The state of slot r.
Slot(r) == << req[r], pc[r], wm[r], keys[r], idx[r], posts[r], resps[r],
              rw[r] >>

\* func init(): Handles["/victorops"] = victorops
RouteTable == [path \in {"/victorops"} |-> "victorops"]

\* The requests of `active` have arrived with a request of `inputs` each,
\* the other slots are idle; the route table is the one init() has built.
InitFrom(active, inputs) ==
  /\ \E q \in [active -> inputs] :
       req = [r \in Reqs |-> IF r \in active THEN q[r] ELSE NoRequest]
  /\ Handles = RouteTable
  /\ pc = [r \in Reqs |-> IF r \in active THEN "decode" ELSE "idle"]
  /\ wm = [r \in Reqs |-> NoWebhook]
  /\ keys = [r \in Reqs |-> [apiKey |-> "", routingKey |-> ""]]
  /\ idx = [r \in Reqs |-> 1]
  /\ posts = [r \in Reqs |-> << >>]
  /\ resps = [r \in Reqs |-> << >>]
  /\ rw = [r \in Reqs |-> NewResponseWriter]

InitWith(active) == InitFrom(active, Requests)

Init == InitWith({1})

\* A handler that validates the query parameters before it decodes the body.
DecodeParamsFirst(r) ==
  /\ pc[r] = "decode"
  /\ "/victorops" \in DOMAIN Handles
  /\ LET w == DecodeWebhook(req[r].body) IN
       /\ wm' = [wm EXCEPT ![r] = w]
       /\ IF MissingParams(QueryParam(req[r].query, VictoropsApikeyParam),
                           QueryParam(req[r].query, VictoropsRoutingkeyParam))
          THEN /\ rw' = [rw EXCEPT ![r] =
                   Fprintf(WriteHeader(@, StatusBadRequest),
                     "requires query parameters '%s' and '%s'",
                     << VictoropsApikeyParam, VictoropsRoutingkeyParam >>)]
               /\ pc' = [pc EXCEPT ![r] = "done"]
          ELSE IF w.err
          THEN /\ rw' = [rw EXCEPT ![r] =
                   Fprintf(WriteHeader(@, StatusBadRequest),
                     "Could not decode Alertmanager request body: %s",
                     << "err" >>)]
               /\ pc' = [pc EXCEPT ![r] = "done"]
          ELSE IF w.dataNil
          THEN /\ rw' = [rw EXCEPT ![r] =
                   Fprintf(WriteHeader(@, StatusBadRequest),
                     "Missing fields request body", << >>)]
               /\ pc' = [pc EXCEPT ![r] = "done"]
          ELSE /\ rw' = rw
               /\ pc' = [pc EXCEPT ![r] = "params"]
  /\ UNCHANGED << Handles, req, keys, idx, posts, resps >>

\* Lines 90-104: decode the body, reject a decode error or a nil Data.
Decode(r) ==
  /\ pc[r] = "decode"
  /\ "/victorops" \in DOMAIN Handles
  /\ LET w == DecodeWebhook(req[r].body) IN
       /\ wm' = [wm EXCEPT ![r] = w]
       /\ IF w.err
          THEN /\ rw' = [rw EXCEPT ![r] =
                   Fprintf(WriteHeader(@, StatusBadRequest),
                     "Could not decode Alertmanager request body: %s",
                     << "err" >>)]
               /\ pc' = [pc EXCEPT ![r] = "done"]
          ELSE IF w.dataNil
          THEN /\ rw' = [rw EXCEPT ![r] =
                   Fprintf(WriteHeader(@, StatusBadRequest),
                     "Missing fields request body", << >>)]
               /\ pc' = [pc EXCEPT ![r] = "done"]
          ELSE /\ rw' = rw
               /\ pc' = [pc EXCEPT ![r] = "params"]
  /\ UNCHANGED << Handles, req, keys, idx, posts, resps >>

\* A loop that skips the alerts an earlier identical request has delivered.
LoopStartAfterDelivered(r) ==
  1 + Cardinality({ i \in 1..Len(wm[r].Alerts) :
        \E q \in Reqs \ {r} :
          /\ req[q] = req[r]
          /\ i <= Len(resps[q])
          /\ ~resps[q][i].err
          /\ resps[q][i].StatusCode \div 100 = 2 })

\* for _, alert := range wm.Alerts: the loop starts at the first alert.
LoopStart(r) == 1

\* A handler that keeps apiKey and routingKey in package-level variables,
\* shared by all the requests.
ExtractParamsShared(r) ==
  /\ pc[r] = "params"
  /\ LET apiKey == QueryParam(req[r].query, VictoropsApikeyParam)
         routingKey == QueryParam(req[r].query, VictoropsRoutingkeyParam)
     IN  /\ keys' = [q \in Reqs |->
                       [apiKey |-> apiKey, routingKey |-> routingKey]]
         /\ IF MissingParams(apiKey, routingKey)
            THEN /\ rw' = [rw EXCEPT ![r] =
                     Fprintf(WriteHeader(@, StatusBadRequest),
                       "requires query parameters '%s' and '%s'",
                       << VictoropsApikeyParam, VictoropsRoutingkeyParam >>)]
                 /\ pc' = [pc EXCEPT ![r] = "done"]
            ELSE /\ rw' = rw
                 /\ pc' = [pc EXCEPT ![r] = "translate"]
         /\ idx' = [idx EXCEPT ![r] = LoopStart(r)]
  /\ UNCHANGED << Handles, req, wm, posts, resps >>

\* Lines 105-121: extract and validate the query parameters; the
\* translation that follows starts its loop at the first alert.
ExtractParams(r) ==
  /\ pc[r] = "params"
  /\ LET apiKey == QueryParam(req[r].query, VictoropsApikeyParam)
         routingKey == QueryParam(req[r].query, VictoropsRoutingkeyParam)
     IN  /\ keys' = [keys EXCEPT ![r] =
                       [apiKey |-> apiKey, routingKey |-> routingKey]]
         /\ IF MissingParams(apiKey, routingKey)
            THEN /\ rw' = [rw EXCEPT ![r] =
                     Fprintf(WriteHeader(@, StatusBadRequest),
                       "requires query parameters '%s' and '%s'",
                       << VictoropsApikeyParam, VictoropsRoutingkeyParam >>)]
                 /\ pc' = [pc EXCEPT ![r] = "done"]
            ELSE /\ rw' = rw
                 /\ pc' = [pc EXCEPT ![r] = "translate"]
         /\ idx' = [idx EXCEPT ![r] = LoopStart(r)]
  /\ UNCHANGED << Handles, req, wm, posts, resps >>

\* A firing loop that sends the POST of an alert without waiting for its
\* outcome and goes on to the next alert.
PostAlertNoWait(r) ==
  /\ pc[r] = "translate"
  /\ Branch(wm[r].Status) = "firing"
  /\ idx[r] <= Len(wm[r].Alerts)
  /\ LET alert == wm[r].Alerts[idx[r]] IN
     \E now \in Times, ao \in RangeOrders(alert.Annotations),
        lo \in RangeOrders(alert.Labels) :
       posts' = [posts EXCEPT ![r] = Append(@,
                  [ url |-> PostURL(keys[r].apiKey, keys[r].routingKey),
                    body |-> Marshal(FiringPost(wm[r], alert, now, ao, lo)) ])]
  /\ idx' = [idx EXCEPT ![r] = @ + 1]
  /\ UNCHANGED << Handles, req, wm, keys, pc, rw, resps >>

\* Lines 130-168: build the victoropsPost of the next alert and POST it.
PostAlert(r) ==
  /\ pc[r] = "translate"
  /\ Branch(wm[r].Status) = "firing"
  /\ idx[r] <= Len(wm[r].Alerts)
  /\ LET alert == wm[r].Alerts[idx[r]] IN
     \E now \in Times, ao \in RangeOrders(alert.Annotations),
        lo \in RangeOrders(alert.Labels) :
       LET vp == FiringPost(wm[r], alert, now, ao, lo) IN
         IF ~MarshalError(vp)
         THEN /\ posts' = [posts EXCEPT ![r] = Append(@,
                   [ url |-> PostURL(keys[r].apiKey, keys[r].routingKey),
                     body |-> Marshal(vp) ])]
              /\ pc' = [pc EXCEPT ![r] = "posting"]
              /\ rw' = rw
         ELSE /\ rw' = [rw EXCEPT ![r] = MarshalFailed(@)]
              /\ pc' = [pc EXCEPT ![r] = "done"]
              /\ posts' = posts
  /\ UNCHANGED << Handles, req, wm, keys, idx, resps >>

\* A handler that POSTs the same alert again when its POST failed.
AlertResponseRetry(r) ==
  /\ pc[r] = "posting"
  /\ Branch(wm[r].Status) = "firing"
  /\ \E out \in Outcomes :
       LET o == FiringOutcome(rw[r], out) IN
         /\ resps' = [resps EXCEPT ![r] = Append(@, out)]
         /\ rw' = [rw EXCEPT ![r] = IF o.return THEN @ ELSE o.rw]
         /\ pc' = [pc EXCEPT ![r] = "translate"]
         /\ idx' = [idx EXCEPT ![r] = IF o.return THEN @ ELSE @ + 1]
  /\ UNCHANGED << Handles, req, wm, keys, posts >>

\* Lines 163-187: the POST of an alert comes back.
AlertResponse(r) ==
  /\ pc[r] = "posting"
  /\ Branch(wm[r].Status) = "firing"
  /\ \E out \in Outcomes :
       LET o == FiringOutcome(rw[r], out) IN
         /\ resps' = [resps EXCEPT ![r] = Append(@, out)]
         /\ rw' = [rw EXCEPT ![r] = o.rw]
         /\ pc' = [pc EXCEPT ![r] = IF o.return THEN "done" ELSE "translate"]
         /\ idx' = [idx EXCEPT ![r] = IF o.return THEN @ ELSE @ + 1]
  /\ UNCHANGED << Handles, req, wm, keys, posts >>

\* Line 195: the loop is over, the handler returns without a write.
FiringDone(r) ==
  /\ pc[r] = "translate"
  /\ Branch(wm[r].Status) = "firing"
  /\ idx[r] > Len(wm[r].Alerts)
  /\ rw' = [rw EXCEPT ![r] = Return(@)]
  /\ pc' = [pc EXCEPT ![r] = "done"]
  /\ UNCHANGED << Handles, req, wm, keys, idx, posts, resps >>

\* Lines 196-216: build the recovery message and POST it.
PostRecovery(r) ==
  /\ pc[r] = "translate"
  /\ Branch(wm[r].Status) = "resolved"
  /\ \E now \in Times :
       LET vp == ResolvedPost(wm[r], now) IN
         IF ~MarshalError(vp)
         THEN /\ posts' = [posts EXCEPT ![r] = Append(@,
                   [ url |-> PostURL(keys[r].apiKey, keys[r].routingKey),
                     body |-> Marshal(vp) ])]
              /\ pc' = [pc EXCEPT ![r] = "posting"]
              /\ rw' = rw
         ELSE /\ rw' = [rw EXCEPT ![r] = MarshalFailed(@)]
              /\ pc' = [pc EXCEPT ![r] = "done"]
              /\ posts' = posts
  /\ UNCHANGED << Handles, req, wm, keys, idx, resps >>

\* Lines 211-236: the POST of the recovery message comes back.
RecoveryResponse(r) ==
  /\ pc[r] = "posting"
  /\ Branch(wm[r].Status) = "resolved"
  /\ \E out \in Outcomes :
       LET o == ResolvedOutcome(rw[r], out) IN
         /\ resps' = [resps EXCEPT ![r] = Append(@, out)]
         /\ rw' = [rw EXCEPT ![r] = Return(o.rw)]
         /\ pc' = [pc EXCEPT ![r] = "done"]
  /\ UNCHANGED << Handles, req, wm, keys, idx, posts >>

\* Lines 244-249: any other status is rejected.
UnknownStatus(r) ==
  /\ pc[r] = "translate"
  /\ Branch(wm[r].Status) = "unknown"
  /\ rw' = [rw EXCEPT ![r] =
       Fprintf(WriteHeader(@, StatusBadRequest),
               "Unknown Alertmanager status: %s", << wm[r].Status >>)]
  /\ pc' = [pc EXCEPT ![r] = "done"]
  /\ UNCHANGED << Handles, req, wm, keys, idx, posts, resps >>

Next ==
  \E r \in Reqs :
    \/ Decode(r)
    \/ ExtractParams(r)
    \/ PostAlert(r)
    \/ AlertResponse(r)
    \/ FiringDone(r)
    \/ PostRecovery(r)
    \/ RecoveryResponse(r)
    \/ UnknownStatus(r)

Spec == Init /\ [][Next]_vars

\* A step of the handler of request r.  The server runs every handler in a
\* goroutine of its own, which the scheduler does not starve, and every POST
\* is taken to return: a step that stays possible is taken.
Step(r) ==
  \/ Decode(r)
  \/ ExtractParams(r)
  \/ PostAlert(r)
  \/ AlertResponse(r)
  \/ FiringDone(r)
  \/ PostRecovery(r)
  \/ RecoveryResponse(r)
  \/ UnknownStatus(r)

Fairness == \A r \in Reqs : WF_vars(Step(r))

\* The requests of the fair specification: the group key, which no branch of
\* the handler looks at, is held to one value.
FairRequests ==
  { q \in Requests : q.body.groupKey.present => q.body.groupKey.v = 10 }

InitFair == InitFrom({1}, FairRequests)

SpecFair == InitFair /\ [][Next]_vars /\ Fairness

\* The client of request r - 1, answered with a 5xx status, sends the same
\* request again: it arrives on slot r.
Resend(r) ==
  /\ r - 1 \in Reqs
  /\ pc[r] = "idle"
  /\ pc[r - 1] = "done"
  /\ rw[r - 1].status >= StatusInternalServerError
  /\ req' = [req EXCEPT ![r] = req[r - 1]]
  /\ pc' = [pc EXCEPT ![r] = "decode"]
  /\ UNCHANGED << Handles, wm, keys, idx, posts, resps, rw >>

NextRetry ==
  \/ Next
  \/ \E r \in Reqs : Resend(r)

InitRetry == InitFrom({1}, ConcRequests)

\* One client that sends a request and sends it again after a failure.
SpecRetry == InitRetry /\ [][NextRetry]_vars

\* Two requests are being served at once (net/http runs the handler of
\* each request in a goroutine of its own).
InitConc == InitFrom({1, 2}, ConcRequests)

SpecConc == InitConc /\ [][Next]_vars

-----------------------------------------------------------------------------
(* Vocabulary of the properties, stated on the inbound request, the        *)
(* outbound POSTs, their outcomes and the response to the caller.          *)

Arrived(r) == pc[r] # "idle"
Done(r) == pc[r] = "done"

BodyDecodes(r) == req[r].body.syntax

HasValue(member) ==
  member.present /\ ~member.null /\ Len(member.v) > 0 /\ member.v[1] # ""

HasCredentials(r) ==
  HasValue(req[r].query.api_key) /\ HasValue(req[r].query.routing_key)

\* The status member of the body, "" when there is none.
InStatus(r) ==
  IF req[r].body.status.present /\ ~req[r].body.status.null
  THEN req[r].body.status.v ELSE ""

\* The alerts of the body, none when the member is absent or null.
InAlerts(r) ==
  IF req[r].body.alerts.present /\ ~req[r].body.alerts.null
  THEN req[r].body.alerts.v ELSE << >>

AlertsNull(r) == req[r].body.alerts.present /\ req[r].body.alerts.null

InGroupKey(r) ==
  IF req[r].body.groupKey.present THEN req[r].body.groupKey.v ELSE 0

\* A request the handler takes to the translation.
Accepted(r, status) ==
  Arrived(r) /\ BodyDecodes(r) /\ HasCredentials(r) /\ InStatus(r) = status

DigitValue(c) == CHOOSE d \in 0..9 : Digits[d + 1] = c

RECURSIVE ParseDecimal(_)
ParseDecimal(s) ==
  IF Len(s) = 0 THEN 0
  ELSE 10 * ParseDecimal(SubSeq(s, 1, Len(s) - 1)) + DigitValue(s[Len(s)])

\* s is the decimal numeral of n: digits only, no leading zero, value n.
IsDecimalOf(s, n) ==
  /\ Len(s) >= 1
  /\ \A i \in 1..Len(s) : \E d \in 1..10 : Digits[d] = s[i]
  /\ Len(s) > 1 => s[1] # "0"
  /\ ParseDecimal(s) = n

Is2xx(out) == ~out.err /\ out.StatusCode \in 200..299

\* A dispatch that failed: transport failure or downstream rejection.
Failed(out) == out.err \/ out.StatusCode \notin 200..299

FirstFailure(r) ==
  CHOOSE i \in 1..Len(resps[r]) :
    Failed(resps[r][i]) /\ \A j \in 1..(i - 1) : ~Failed(resps[r][j])

SomeFailure(r) == \E i \in 1..Len(resps[r]) : Failed(resps[r][i])

EntityIDsAreGroupKey(r) ==
  \A i \in 1..Len(posts[r]) :
    /\ "entity_id" \in DOMAIN posts[r][i].body
    /\ IsDecimalOf(posts[r][i].body["entity_id"], InGroupKey(r))

Kind(post) == post.body["message_type"][1]

\* The body of the response holds a text with the argument x.
BodyEmbeds(r, x) ==
  \E i \in 1..Len(rw[r].body) :
    \E j \in 2..Len(rw[r].body[i]) : rw[r].body[i][j] = x

-----------------------------------------------------------------------------
\* C1 (as claimed): a completed firing request with N alerts has issued
\* exactly N POSTs, each with entity_id the decimal string of the group key.
C1_ExactlyNPosts ==
  \A r \in Reqs :
    (Accepted(r, "firing") /\ Done(r)) =>
      /\ Len(posts[r]) = Len(InAlerts(r))
      /\ EntityIDsAreGroupKey(r)

\* C1 (amended): a completed firing request with N alerts has issued exactly
\* N POSTs when no dispatch failed, and exactly k POSTs when the k-th
\* dispatch was the first to fail; every POST issued carries entity_id equal
\* to the decimal string of the group key.
C1_PostsUpToFirstFailure ==
  \A r \in Reqs :
    Accepted(r, "firing") =>
      /\ EntityIDsAreGroupKey(r)
      /\ Done(r) =>
           Len(posts[r]) = IF SomeFailure(r) THEN FirstFailure(r)
                           ELSE Len(InAlerts(r))

C1_Witness ==
  \E r \in Reqs :
    /\ Accepted(r, "firing") /\ Done(r)
    /\ Len(InAlerts(r)) = MaxAlerts
    /\ Len(posts[r]) = MaxAlerts
    /\ InGroupKey(r) = 305
    /\ posts[r][1].body["entity_id"] = << "3", "0", "5" >>

\* C2: a resolved request issues exactly one POST whatever the number of
\* its alerts, of kind RECOVERY and without a state-start time.
C2_OneRecoveryPost ==
  \A r \in Reqs :
    Accepted(r, "resolved") =>
      /\ Len(posts[r]) <= 1
      /\ Done(r) => Len(posts[r]) = 1
      /\ \A i \in 1..Len(posts[r]) :
           /\ Kind(posts[r][i]) = "RECOVERY"
           /\ "state_start_time" \notin DOMAIN posts[r][i].body

C2_Witness ==
  \E r \in Reqs :
    /\ Accepted(r, "resolved") /\ Done(r)
    /\ Len(InAlerts(r)) >= 2
    /\ Len(posts[r]) = 1
    /\ Kind(posts[r][1]) = "RECOVERY"

\* C3: in the firing branch the kind of the i-th POST is the label
\* victorops_message_type of the i-th alert when that label is present and
\* not empty, and CRITICAL otherwise, whatever the labels of the other alerts.
C3_KindFromOwnLabel ==
  \A r \in Reqs :
    Accepted(r, "firing") =>
      \A i \in 1..Len(posts[r]) :
        LET labels == InAlerts(r)[i].Labels IN
          Kind(posts[r][i]) =
            IF /\ "victorops_message_type" \in DOMAIN labels
               /\ labels["victorops_message_type"] # ""
            THEN labels["victorops_message_type"]
            ELSE "CRITICAL"

C3_Witness ==
  \E r \in Reqs :
    /\ Accepted(r, "firing")
    /\ Len(posts[r]) = 2
    /\ DOMAIN InAlerts(r)[1].Labels = {}
    /\ Kind(posts[r][1]) = "CRITICAL"
    /\ MapGet(InAlerts(r)[2].Labels, "victorops_message_type") = "WARNING"
    /\ Kind(posts[r][2]) = "WARNING"

C5_NoCredentialsNoPost ==
  \A r \in Reqs :
    (Arrived(r) /\ ~HasCredentials(r)) =>
      /\ posts[r] = << >>
      /\ Done(r) => rw[r].status = StatusBadRequest

C5_Witness ==
  \E r \in Reqs :
    /\ Arrived(r) /\ Done(r) /\ BodyDecodes(r)
    /\ InStatus(r) = "firing" /\ Len(InAlerts(r)) >= 1
    /\ HasValue(req[r].query.api_key)
    /\ ~req[r].query.routing_key.present
    /\ rw[r].status = StatusBadRequest
    /\ posts[r] = << >>

\* C6: whenever a POST is answered with a non-2xx status, in the firing and
\* in the resolved branch, the caller receives 502 and a body that embeds
\* the message of the downstream response.
C6_RejectionGives502 ==
  \A r \in Reqs :
    \A i \in 1..Len(resps[r]) :
      (~resps[r][i].err /\ resps[r][i].StatusCode \notin 200..299) =>
        /\ Done(r)
        /\ rw[r].status = StatusBadGateway
        /\ resps[r][i].Body.json => BodyEmbeds(r, resps[r][i].Body.Message)

\* C7: in the firing branch a failed dispatch is the last POST of the
\* request: the request is over, the alerts after it are not POSTed, and
\* the text written last to the caller reports this first failure.
C7_AbortOnFirstFailure ==
  \A r \in Reqs :
    Accepted(r, "firing") =>
      \A i \in 1..Len(resps[r]) :
        Failed(resps[r][i]) =>
          /\ i = Len(resps[r])
          /\ Len(posts[r]) = i
          /\ Done(r)
          /\ Len(rw[r].body) >= 1
          /\ rw[r].body[Len(rw[r].body)] =
               IF resps[r][i].err
               THEN << "Failed post to VictorOps REST api: %s", "err" >>
               ELSE << "Unexpected status code %v from VictorOps: %v",
                       ToString(resps[r][i].StatusCode),
                       IF resps[r][i].Body.json
                       THEN resps[r][i].Body.Message ELSE "" >>

C7_Witness ==
  \E r \in Reqs :
    /\ Accepted(r, "firing") /\ Done(r)
    /\ Len(InAlerts(r)) = 2
    /\ Len(resps[r]) = 1 /\ Failed(resps[r][1])
    /\ Len(posts[r]) = 1

\* C8: when the dispatch of alert k >= 1 fails after the dispatches of the
\* alerts before it were answered 2xx, the caller receives 502.
C8_PartialFailureGives502 ==
  \A r \in Reqs :
    ( /\ Accepted(r, "firing") /\ Done(r)
      /\ Len(resps[r]) >= 2
      /\ \A j \in 1..(Len(resps[r]) - 1) : Is2xx(resps[r][j])
      /\ Failed(resps[r][Len(resps[r])]) ) =>
      rw[r].status = StatusBadGateway

\* The request did all it was asked: one POST per alert when firing, one
\* POST when resolved, each answered 2xx.
Succeeded(r) ==
  /\ BodyDecodes(r) /\ HasCredentials(r)
  /\ InStatus(r) \in {"firing", "resolved"}
  /\ Len(posts[r]) = IF InStatus(r) = "firing" THEN Len(InAlerts(r)) ELSE 1
  /\ Len(resps[r]) = Len(posts[r])
  /\ \A i \in 1..Len(resps[r]) : Is2xx(resps[r][i])

\* C9: the caller receives 200 only if the request succeeded, and the
\* status it receives is one of 200, 400, 500, 502.
C9_OKOnlyOnSuccess ==
  \A r \in Reqs :
    (Arrived(r) /\ Done(r)) =>
      /\ rw[r].status \in { StatusOK, StatusBadRequest,
                            StatusInternalServerError, StatusBadGateway }
      /\ rw[r].status = StatusOK => Succeeded(r)

\* C10: a request whose status is neither firing nor resolved never has a
\* POST issued for it and is answered 400.
C10_UnknownStatusRejected ==
  \A r \in Reqs :
    ( /\ Arrived(r) /\ BodyDecodes(r) /\ HasCredentials(r)
      /\ InStatus(r) \notin {"firing", "resolved"} ) =>
      /\ posts[r] = << >>
      /\ Done(r) => rw[r].status = StatusBadRequest

C10_Witness ==
  \E r \in Reqs :
    /\ Accepted(r, "pending") /\ Done(r)
    /\ Len(InAlerts(r)) >= 1
    /\ rw[r].status = StatusBadRequest
    /\ rw[r].body =
         << << "Unknown Alertmanager status: %s", "pending" >> >>
    /\ posts[r] = << >>

\* The POST carries the alert: its start time, its message kind and the
\* source line of its generator URL.
PostIsForAlert(post, alert) ==
  /\ "state_start_time" \in DOMAIN post.body
  /\ post.body["state_start_time"] = << alert.StartsAt.unix >>
  /\ "state_message" \in DOMAIN post.body
  /\ \E j \in 1..Len(post.body["state_message"]) :
       post.body["state_message"][j] =
         << "Prometheus: ", alert.GeneratorURL, "\n" >>

\* C11: the POSTs of a firing request are issued one at a time and in the
\* order of the alert list: at most one POST awaits its outcome, a POST is
\* there only when all the POSTs before it have their outcome, and the i-th
\* POST is the one of the i-th alert.
C11_SequentialInOrder ==
  \A r \in Reqs :
    Accepted(r, "firing") =>
      /\ Len(resps[r]) <= Len(posts[r])
      /\ Len(posts[r]) <= Len(resps[r]) + 1
      /\ Len(posts[r]) <= Len(InAlerts(r))
      /\ \A i \in 1..Len(posts[r]) :
           PostIsForAlert(posts[r][i], InAlerts(r)[i])

C11_Witness ==
  \E r \in Reqs :
    /\ Accepted(r, "firing")
    /\ Len(InAlerts(r)) = 2
    /\ InAlerts(r)[1].GeneratorURL # InAlerts(r)[2].GeneratorURL
    /\ Len(posts[r]) = 2 /\ Len(resps[r]) = 1
    /\ PostIsForAlert(posts[r][2], InAlerts(r)[2])
    /\ ~PostIsForAlert(posts[r][2], InAlerts(r)[1])

\* Two POSTs that differ at most in the timestamp and in the order of the
\* lines of the state message.
SameButTimestamp(p, q) ==
  /\ p.url = q.url
  /\ DOMAIN p.body = DOMAIN q.body
  /\ \A name \in DOMAIN p.body \ {"timestamp", "state_message"} :
       p.body[name] = q.body[name]
  /\ "state_message" \in DOMAIN p.body =>
       /\ Len(p.body["state_message"]) = Len(q.body["state_message"])
       /\ { p.body["state_message"][j] :
              j \in 1..Len(p.body["state_message"]) }
          = { q.body["state_message"][j] :
              j \in 1..Len(q.body["state_message"]) }

\* What is done for a request is a function of the request itself and of
\* the outcomes of its own POSTs.
OwnInputsDecide ==
  \A r1, r2 \in Reqs :
    ( /\ Arrived(r1) /\ Arrived(r2)
      /\ req[r1] = req[r2] /\ resps[r1] = resps[r2] /\ pc[r1] = pc[r2] ) =>
      /\ rw[r1] = rw[r2]
      /\ keys[r1] = keys[r2] /\ idx[r1] = idx[r2] /\ wm[r1] = wm[r2]
      /\ Len(posts[r1]) = Len(posts[r2])
      /\ \A i \in 1..Len(posts[r1]) :
           SameButTimestamp(posts[r1][i], posts[r2][i])

\* The URL of every POST of a request holds the request's own credentials.
OwnCredentialsInURL ==
  \A r \in Reqs :
    \A i \in 1..Len(posts[r]) :
      /\ HasCredentials(r)
      /\ Len(posts[r][i].url) = 4
      /\ posts[r][i].url[2] = req[r].query.api_key.v[1]
      /\ posts[r][i].url[4] = req[r].query.routing_key.v[1]

\* A step changes the state of one request at most.
OneSlotPerStep ==
  \A r1, r2 \in Reqs :
    r1 # r2 => (Slot(r1)' = Slot(r1) \/ Slot(r2)' = Slot(r2))

C13_ResendStartsOver ==
  \A r \in Reqs :
    (r - 1 \in Reqs /\ Arrived(r) /\ Accepted(r, "firing")) =>
      /\ req[r] = req[r - 1]
      /\ \A i \in 1..Len(posts[r]) :
           /\ PostIsForAlert(posts[r][i], InAlerts(r)[i])
           /\ i <= Len(posts[r - 1]) =>
                SameButTimestamp(posts[r][i], posts[r - 1][i])
      /\ Done(r) =>
           Len(posts[r]) = IF SomeFailure(r) THEN FirstFailure(r)
                           ELSE Len(InAlerts(r))

\* The first alert was delivered by the first request, which failed at the
\* second alert; the request sent again has delivered the first alert again.
C13_Witness ==
  /\ Accepted(1, "firing") /\ Done(1) /\ Len(InAlerts(1)) = 2
  /\ Len(resps[1]) = 2 /\ Is2xx(resps[1][1]) /\ Failed(resps[1][2])
  /\ req[2] = req[1] /\ Done(2)
  /\ Len(resps[2]) >= 1 /\ Is2xx(resps[2][1])
  /\ PostIsForAlert(posts[2][1], InAlerts(1)[1])
  /\ SameButTimestamp(posts[2][1], posts[1][1])

\* A response whose body could not be decoded.
Undecodable(out) == ~out.err /\ ~out.Body.json

DecodeErrorText == << "Could not decode VictorOps response body: %s", "err" >>

\* C14: a response body that cannot be decoded ends a resolved request with
\* 502; in the firing branch it is written to the caller but does not end
\* the request: after an undecodable 2xx response the request ends only when
\* the alert list is exhausted, and the POST after it is the one of the next
\* alert.
C14_DecodeFailureAsymmetry ==
  \A r \in Reqs :
    /\ Accepted(r, "resolved") =>
         \A i \in 1..Len(resps[r]) :
           Undecodable(resps[r][i]) =>
             /\ Done(r)
             /\ rw[r].status = StatusBadGateway
             /\ rw[r].body = << DecodeErrorText >>
    /\ Accepted(r, "firing") =>
         \A i \in 1..Len(resps[r]) :
           (Undecodable(resps[r][i]) /\ Is2xx(resps[r][i])) =>
             /\ \E j \in 1..Len(rw[r].body) : rw[r].body[j] = DecodeErrorText
             /\ (Done(r) /\ i = Len(resps[r])) => i = Len(InAlerts(r))
             /\ i < Len(posts[r]) =>
                  PostIsForAlert(posts[r][i + 1], InAlerts(r)[i + 1])

C14_Witness ==
  \E r \in Reqs :
    /\ Accepted(r, "firing")
    /\ Len(InAlerts(r)) = 2
    /\ Len(resps[r]) = 1
    /\ Undecodable(resps[r][1]) /\ Is2xx(resps[r][1])
    /\ Len(posts[r]) = 2
    /\ PostIsForAlert(posts[r][2], InAlerts(r)[2])

DecodeText ==
  << "Could not decode Alertmanager request body: %s", "err" >>
MissingFieldsText == << "Missing fields request body" >>
CredentialsText ==
  << "requires query parameters '%s' and '%s'", "api_key", "routing_key" >>

\* The body has an alert collection: the member is there and is not null.
HasAlerts(r) == req[r].body.alerts.present /\ ~req[r].body.alerts.null

\* The body has one of the members of the webhook data.
HasData(r) ==
  \/ req[r].body.status.present \/ req[r].body.alerts.present
  \/ req[r].body.groupLabels.present \/ req[r].body.externalURL.present

StepOrder ==
  \A r \in Reqs :
    pc[r]' # pc[r] =>
      << pc[r], pc[r]' >> \in
        { << "decode", "params" >>, << "decode", "done" >>,
          << "params", "translate" >>, << "params", "done" >>,
          << "translate", "posting" >>, << "translate", "done" >>,
          << "posting", "translate" >>, << "posting", "done" >> }

MessageTypes == { "INFO", "WARNING", "ACKNOWLEDGEMENT", "CRITICAL", "RECOVERY" }

\* C16: the message_type of every POST the handler issues is one of INFO,
\* WARNING, ACKNOWLEDGEMENT, CRITICAL, RECOVERY, whatever the inbound
\* message and its labels.
C16_KindInEnumeration ==
  \A r \in Reqs :
    \A i \in 1..Len(posts[r]) : Kind(posts[r][i]) \in MessageTypes

\* The external URL of the body, "" when there is none.
InExternalURL(r) ==
  IF req[r].body.externalURL.present /\ ~req[r].body.externalURL.null
  THEN req[r].body.externalURL.v ELSE ""

\* C17: two runs of the handler on the same alert (annotations, labels,
\* generator URL) with the same external URL build the identical state
\* message.
C17_StateMessageDeterministic ==
  \A r1, r2 \in Reqs :
    ( /\ Accepted(r1, "firing") /\ Accepted(r2, "firing")
      /\ InExternalURL(r1) = InExternalURL(r2) ) =>
      \A i \in 1..Len(posts[r1]), j \in 1..Len(posts[r2]) :
        InAlerts(r1)[i] = InAlerts(r2)[j] =>
          posts[r1][i].body["state_message"]
            = posts[r2][j].body["state_message"]

\* C18: the handler sets the status of a response at most once and never
\* after text of the body was written, and the status it set is the status
\* of the response.
C18_StatusSetOnceBeforeBody ==
  \A r \in Reqs :
    /\ Len(rw[r].asked) <= 1
    /\ ~rw[r].late
    /\ rw[r].asked # << >> => rw[r].status = rw[r].asked[1]

\* The POSTs of a request stay within the number its message allows, and
\* the i-th POST of a firing request is the one of its i-th alert.
PostsBounded(r) ==
  /\ Accepted(r, "firing") =>
       /\ Len(posts[r]) <= Len(InAlerts(r))
       /\ \A i \in 1..Len(posts[r]) :
            PostIsForAlert(posts[r][i], InAlerts(r)[i])
  /\ Accepted(r, "resolved") => Len(posts[r]) <= 1
  /\ ~(Accepted(r, "firing") \/ Accepted(r, "resolved")) => posts[r] = << >>

\* The request has its final response.
Completed(r) == Done(r) /\ rw[r].wroteHeader

\* C19: when every POST returns, every request that arrived gets its final
\* response, after at most N POSTs for a firing message with N alerts, at
\* most one for a resolved message and none for a rejected request, and no
\* alert of a request is POSTed twice.
C19_EveryRequestCompletes ==
  /\ [](\A r \in Reqs : Arrived(r) => PostsBounded(r))
  /\ \A r \in Reqs : Arrived(r) ~> Completed(r)

C19_Witness ==
  \E r \in Reqs :
    /\ Accepted(r, "firing") /\ Completed(r)
    /\ Len(InAlerts(r)) = MaxAlerts
    /\ Len(posts[r]) = MaxAlerts
    /\ Len(resps[r]) = MaxAlerts

====
